---- MODULE Spec2Model ----
(***************************************************************************)
(* Model of the allocation engine and KPI computation of src/app.py:       *)
(* pseudo_black_box_schedule (lines 44-149) and kpis (lines 151-170).      *)
(*                                                                         *)
(* Numbers.  The program computes on float64.  Here every flow and volume  *)
(* is an exact rational <<n, d>> (d > 0, lowest terms) counted in units of *)
(* 1e-6, the guard constant of lines 91, 103, 156 and 160, so that guard   *)
(* is the rational 1 (EPS) and one whole unit of water is Unit = 10^6.     *)
(* Rounding of float64 is not modelled: every identity below is one of     *)
(* exact arithmetic.                                                       *)
(***************************************************************************)
EXTENDS Integers, Sequences, FiniteSets, TLC

VARIABLES
    inputs,                 \* the inputs DataFrame: a sequence of hourly rows
    storage_start,          \* arguments of pseudo_black_box_schedule
    storage_min,
    storage_max,
    max_release_per_hour,
    scenario_multipliers,
    df,                     \* the scaled copy of inputs (lines 54-63)
    storage,                \* the loop's carried storage (line 65, 146)
    rows,                   \* the schedule rows appended so far (line 66, 133)
    pc,                     \* "start" | "loop" | "raised" | "returned" | "kpis"
    k                       \* the dict returned by kpis, once computed

args == <<inputs, storage_start, storage_min, storage_max,
          max_release_per_hour, scenario_multipliers>>
vars == <<inputs, storage_start, storage_min, storage_max,
          max_release_per_hour, scenario_multipliers, df, storage, rows, pc, k>>

----------------------------------------------------------------------------
(* Exact rational arithmetic.                                              *)

Abs(n) == IF n < 0 THEN -n ELSE n

RECURSIVE GCD(_, _)
GCD(a, b) == IF b = 0 THEN a ELSE GCD(b, a % b)

Norm(n, d) ==
    LET g == GCD(Abs(n), Abs(d))
        s == IF d < 0 THEN -1 ELSE 1
    IN  <<s * (n \div g), s * (d \div g)>>

Rat(n) == <<n, 1>>
Frac(n, d) == Norm(n, d)

Zero == Rat(0)

Add(a, b) ==
    LET g == GCD(a[2], b[2])
    IN  Norm(a[1] * (b[2] \div g) + b[1] * (a[2] \div g), (a[2] \div g) * b[2])

Neg(a) == <<-a[1], a[2]>>

Sub(a, b) == Add(a, Neg(b))

Mul(a, b) ==
    LET g1 == GCD(Abs(a[1]), b[2])
        g2 == GCD(Abs(b[1]), a[2])
    IN  Norm((a[1] \div g1) * (b[1] \div g2), (a[2] \div g2) * (b[2] \div g1))

\* b # Zero
Div(a, b) == Mul(a, IF b[1] < 0 THEN <<-b[2], -b[1]>> ELSE <<b[2], b[1]>>)

Less(a, b) ==
    LET g == GCD(a[2], b[2])
    IN  a[1] * (b[2] \div g) < b[1] * (a[2] \div g)

Leq(a, b) == ~Less(b, a)

Max(a, b) == IF Less(a, b) THEN b ELSE a

\* The guard 1e-6 of lines 91, 103, 156, 160, in units of 1e-6.
EPS == Rat(1)

\* One unit of water, in units of 1e-6.
Unit == 1000000

\* frame[name]: one column of a DataFrame.
Column(frame, name) == [i \in 1..Len(frame) |-> frame[i][name]]

\* Series.sum().
RECURSIVE Sum(_)
Sum(s) == IF s = << >> THEN Zero ELSE Add(Head(s), Sum(Tail(s)))

----------------------------------------------------------------------------
(* pseudo_black_box_schedule, lines 44-149.                                *)

\* Lines 54-63: the copy of one input row with the scenario multipliers applied.
Scaled(r, m) ==
    [river_inflow_S1     |-> Mul(r.river_inflow_S1, m.river),
     upstream_release_R1 |-> Mul(r.upstream_release_R1, m.upstream),
     upstream_release_R2 |-> Mul(r.upstream_release_R2, m.upstream),
     demand_D1           |-> Mul(r.demand_D1, m.demand),
     demand_D2           |-> Mul(r.demand_D2, m.demand),
     commitment_S4_min   |-> Mul(r.commitment_S4_min, m.commitments),
     commitment_S5_min   |-> Mul(r.commitment_S5_min, m.commitments)]

\* Line 69.
Inflow(r) ==
    Add(Add(r.river_inflow_S1, r.upstream_release_R1), r.upstream_release_R2)

\* Line 72 without the subtraction of storage_min: all of the storage usable.
UsableStorage_Whole(st, smin) == Max(Zero, st)

\* Line 72.
UsableStorage(st, smin) == Max(Zero, Sub(st, smin))

\* Line 73.
Available(r, st, smin) == Add(Inflow(r), UsableStorage(st, smin))

\* Lines 89-108 with one shortage rule for all four branches: whenever
\* available is below the whole need, everything is scaled alike.
Allocate_ScaleAll(available, s4, s5, d1, d2) ==
    IF Less(available, Add(Add(s4, s5), Add(d1, d2)))
    THEN LET scale == Div(available, Add(Add(Add(s4, s5), Add(d1, d2)), EPS))
         IN  [s4_out |-> Mul(s4, scale), s5_out |-> Mul(s5, scale),
              d1_out |-> Mul(d1, scale), d2_out |-> Mul(d2, scale)]
    ELSE [s4_out |-> s4, s5_out |-> s5, d1_out |-> d1, d2_out |-> d2]

\* Lines 89-108 with the test of line 99 turned around.
Allocate_FlippedTest(available, s4, s5, d1, d2) ==
    IF Less(available, Add(s4, s5))
    THEN LET scale == Div(available, Add(Add(s4, s5), EPS))
         IN  [s4_out |-> Mul(s4, scale), s5_out |-> Mul(s5, scale),
              d1_out |-> Zero, d2_out |-> Zero]
    ELSE LET remaining == Sub(available, Add(s4, s5))
             demand_sum == Add(d1, d2)
         IN  IF Leq(remaining, demand_sum)
             THEN [s4_out |-> s4, s5_out |-> s5, d1_out |-> d1, d2_out |-> d2]
             ELSE IF Less(demand_sum, EPS)
                  THEN [s4_out |-> s4, s5_out |-> s5,
                        d1_out |-> Zero, d2_out |-> Zero]
                  ELSE [s4_out |-> s4, s5_out |-> s5,
                        d1_out |-> Mul(remaining, Div(d1, demand_sum)),
                        d2_out |-> Mul(remaining, Div(d2, demand_sum))]

\* Lines 89-108 with the remainder of lines 106-107 split in two equal
\* halves instead of by each demand's share.
Allocate_EqualSplit(available, s4, s5, d1, d2) ==
    IF Less(available, Add(s4, s5))
    THEN LET scale == Div(available, Add(Add(s4, s5), EPS))
         IN  [s4_out |-> Mul(s4, scale), s5_out |-> Mul(s5, scale),
              d1_out |-> Zero, d2_out |-> Zero]
    ELSE LET remaining == Sub(available, Add(s4, s5))
             demand_sum == Add(d1, d2)
         IN  IF Leq(demand_sum, remaining)
             THEN [s4_out |-> s4, s5_out |-> s5, d1_out |-> d1, d2_out |-> d2]
             ELSE IF Less(demand_sum, EPS)
                  THEN [s4_out |-> s4, s5_out |-> s5,
                        d1_out |-> Zero, d2_out |-> Zero]
                  ELSE [s4_out |-> s4, s5_out |-> s5,
                        d1_out |-> Div(remaining, Rat(2)),
                        d2_out |-> Div(remaining, Rat(2))]

\* Lines 89-108 with the shortage of lines 91-93 shared in two equal halves
\* instead of by each commitment's size.
Allocate_ShortageHalves(available, s4, s5, d1, d2) ==
    IF Less(available, Add(s4, s5))
    THEN [s4_out |-> Div(available, Rat(2)), s5_out |-> Div(available, Rat(2)),
          d1_out |-> Zero, d2_out |-> Zero]
    ELSE LET remaining == Sub(available, Add(s4, s5))
             demand_sum == Add(d1, d2)
         IN  IF Leq(demand_sum, remaining)
             THEN [s4_out |-> s4, s5_out |-> s5, d1_out |-> d1, d2_out |-> d2]
             ELSE IF Less(demand_sum, EPS)
                  THEN [s4_out |-> s4, s5_out |-> s5,
                        d1_out |-> Zero, d2_out |-> Zero]
                  ELSE [s4_out |-> s4, s5_out |-> s5,
                        d1_out |-> Mul(remaining, Div(d1, demand_sum)),
                        d2_out |-> Mul(remaining, Div(d2, demand_sum))]

\* Lines 89-108: commitments first, then demands.
Allocate(available, s4, s5, d1, d2) ==
    IF Less(available, Add(s4, s5))
    THEN LET scale == Div(available, Add(Add(s4, s5), EPS))
         IN  [s4_out |-> Mul(s4, scale), s5_out |-> Mul(s5, scale),
              d1_out |-> Zero, d2_out |-> Zero]
    ELSE LET remaining == Sub(available, Add(s4, s5))
             demand_sum == Add(d1, d2)
         IN  IF Leq(demand_sum, remaining)
             THEN [s4_out |-> s4, s5_out |-> s5, d1_out |-> d1, d2_out |-> d2]
             ELSE IF Less(demand_sum, EPS)
                  THEN [s4_out |-> s4, s5_out |-> s5,
                        d1_out |-> Zero, d2_out |-> Zero]
                  ELSE [s4_out |-> s4, s5_out |-> s5,
                        d1_out |-> Mul(remaining, Div(d1, demand_sum)),
                        d2_out |-> Mul(remaining, Div(d2, demand_sum))]

\* Line 110.
TotalOf(a) == Add(Add(Add(a.s4_out, a.s5_out), a.d1_out), a.d2_out)

\* Line 113.
CapBinds(a, cap) == Less(cap, TotalOf(a))

\* Line 114 divides by total_release: a ZeroDivisionError when it is 0.0,
\* which line 113 lets through exactly when the cap is negative.
CapRaises(a, cap) == CapBinds(a, cap) /\ TotalOf(a) = Zero

\* Lines 110-119 with the cap taken out of the demands only (lines 115-116
\* left out): the commitments keep their allocation.
ApplyCap_DemandsOnly(a, cap) ==
    IF CapBinds(a, cap)
    THEN LET scale == Div(cap, TotalOf(a))
         IN  [s4_out |-> a.s4_out, s5_out |-> a.s5_out,
              d1_out |-> Mul(a.d1_out, scale), d2_out |-> Mul(a.d2_out, scale),
              total_release |-> cap]
    ELSE [s4_out |-> a.s4_out, s5_out |-> a.s5_out,
          d1_out |-> a.d1_out, d2_out |-> a.d2_out,
          total_release |-> TotalOf(a)]

\* Lines 110-119: the per-hour cap (requires ~CapRaises(a, cap)).
ApplyCap(a, cap) ==
    IF CapBinds(a, cap)
    THEN LET scale == Div(cap, TotalOf(a))
         IN  [s4_out |-> Mul(a.s4_out, scale), s5_out |-> Mul(a.s5_out, scale),
              d1_out |-> Mul(a.d1_out, scale), d2_out |-> Mul(a.d2_out, scale),
              total_release |-> cap]
    ELSE [s4_out |-> a.s4_out, s5_out |-> a.s5_out,
          d1_out |-> a.d1_out, d2_out |-> a.d2_out,
          total_release |-> TotalOf(a)]

\* Lines 122-131 without the clamp of line 131: the flag is raised, the
\* storage is carried as it is.
UpdateStorage_NoMinClamp(st, inflow, total_release, smin, smax) ==
    LET next0 == Sub(Add(st, inflow), total_release)
        spill == IF Less(smax, next0) THEN Sub(next0, smax) ELSE Zero
        next1 == IF Less(smax, next0) THEN smax ELSE next0
    IN  [storage_next |-> next1,
         spillage |-> spill,
         violation_storage_min |-> Less(next1, smin)]

\* Lines 122-131 without line 125: the storage is clamped to storage_max
\* and the excess is not recorded as spillage.
UpdateStorage_NoSpillage(st, inflow, total_release, smin, smax) ==
    LET next0 == Sub(Add(st, inflow), total_release)
        next1 == IF Less(smax, next0) THEN smax ELSE next0
        violated_min == Less(next1, smin)
    IN  [storage_next |-> IF violated_min THEN smin ELSE next1,
         spillage |-> Zero,
         violation_storage_min |-> violated_min]

\* Lines 122-131: storage update, spillage, min flag and clamp.
UpdateStorage(st, inflow, total_release, smin, smax) ==
    LET next0 == Sub(Add(st, inflow), total_release)
        spill == IF Less(smax, next0) THEN Sub(next0, smax) ELSE Zero
        next1 == IF Less(smax, next0) THEN smax ELSE next0
        violated_min == Less(next1, smin)
    IN  [storage_next |-> IF violated_min THEN smin ELSE next1,
         spillage |-> spill,
         violation_storage_min |-> violated_min]

\* Lines 76-108: the uncapped allocation of scaled row r from storage st.
Uncapped(r, st, smin) ==
    Allocate(Available(r, st, smin), r.commitment_S4_min, r.commitment_S5_min,
             r.demand_D1, r.demand_D2)

\* Lines 133-144: the row appended for scaled row r from storage st.
ScheduleRow(r, st, smin, smax, cap) ==
    LET c == ApplyCap(Uncapped(r, st, smin), cap)
        u == UpdateStorage(st, Inflow(r), c.total_release, smin, smax)
    IN  [inflow_total |-> Inflow(r),
         release_D1 |-> c.d1_out,
         release_D2 |-> c.d2_out,
         release_S4_river |-> c.s4_out,
         release_S5_downstream |-> c.s5_out,
         release_total |-> c.total_release,
         storage_end |-> u.storage_next,
         spillage |-> u.spillage,
         violation_storage_min |-> u.violation_storage_min]

\* Lines 54-66: the scaled copy of the inputs, the starting storage and the
\* empty list of rows.
ApplyMultipliers ==
    /\ pc = "start"
    /\ df' = [i \in 1..Len(inputs) |-> Scaled(inputs[i], scenario_multipliers)]
    /\ storage' = storage_start
    /\ rows' = << >>
    /\ pc' = "loop"
    /\ UNCHANGED <<args, k>>

\* The scaled row the loop reads next (line 68).
NextRow == df[Len(rows) + 1]

\* Lines 68-146, one iteration that completes.
HourStep ==
    /\ pc = "loop"
    /\ Len(rows) < Len(df)
    /\ ~CapRaises(Uncapped(NextRow, storage, storage_min), max_release_per_hour)
    /\ LET row == ScheduleRow(NextRow, storage, storage_min, storage_max,
                              max_release_per_hour)
       IN  /\ rows' = Append(rows, row)
           /\ storage' = row.storage_end
    /\ UNCHANGED <<args, df, pc, k>>

\* Lines 68-114, one iteration that raises ZeroDivisionError at line 114.
HourRaise ==
    /\ pc = "loop"
    /\ Len(rows) < Len(df)
    /\ CapRaises(Uncapped(NextRow, storage, storage_min), max_release_per_hour)
    /\ pc' = "raised"
    /\ UNCHANGED <<args, df, storage, rows, k>>

\* Lines 148-149: the loop is over, the schedule is returned.
Return ==
    /\ pc = "loop"
    /\ Len(rows) = Len(df)
    /\ pc' = "returned"
    /\ UNCHANGED <<args, df, storage, rows, k>>

----------------------------------------------------------------------------
(* kpis, lines 151-170, called on the unscaled inputs and the schedule     *)
(* (lines 216-223).                                                        *)

\* Line 163.
Violations(schedule) ==
    Cardinality({i \in 1..Len(schedule) : schedule[i].violation_storage_min})

\* Lines 152-170.
KpisOf(inp, schedule) ==
    LET dem == Add(Sum(Column(inp, "demand_D1")), Sum(Column(inp, "demand_D2")))
        dem_met == Add(Sum(Column(schedule, "release_D1")),
                       Sum(Column(schedule, "release_D2")))
        com == Add(Sum(Column(inp, "commitment_S4_min")),
                   Sum(Column(inp, "commitment_S5_min")))
        com_met == Add(Sum(Column(schedule, "release_S4_river")),
                       Sum(Column(schedule, "release_S5_downstream")))
    IN  [demand_met_pct |-> Div(Mul(Rat(100), dem_met), Add(dem, EPS)),
         commitments_met_pct |-> Div(Mul(Rat(100), com_met), Add(com, EPS)),
         total_spillage |-> Sum(Column(schedule, "spillage")),
         storage_min_violations |-> Violations(schedule)]

\* Line 223: kpis(inputs, schedule) on the returned schedule.
Kpis ==
    /\ pc = "returned"
    /\ k' = KpisOf(inputs, rows)
    /\ pc' = "kpis"
    /\ UNCHANGED <<args, df, storage, rows>>

----------------------------------------------------------------------------
(* Inputs.                                                                 *)

\* The longest input the bounded runs iterate over.
Horizon == 2

\* The largest storage_start of the bounded runs, in units of 1e-6.
MaxLevel == 3

Row(river, r1, r2, d1, d2, s4, s5) ==
    [river_inflow_S1 |-> river, upstream_release_R1 |-> r1,
     upstream_release_R2 |-> r2, demand_D1 |-> d1, demand_D2 |-> d2,
     commitment_S4_min |-> s4, commitment_S5_min |-> s5]

\* Hourly rows of the bounded runs: all non-negative (the data model's
\* invariant), with plentiful inflow, with no inflow, with little inflow and
\* large demands, and with demands below the guard and no commitments.
\* Nonzero commitments sum to 4 and the multipliers are quarters, which
\* keeps the exact rationals of a run within TLC's 32-bit integers.
Rows ==
    { Row(Rat(3), Rat(1), Rat(1), Rat(1), Rat(2), Rat(3), Rat(1)),
      Row(Zero, Zero, Zero, Rat(2), Rat(1), Rat(1), Rat(3)),
      Row(Rat(1), Zero, Rat(1), Rat(1), Rat(3), Rat(2), Rat(2)),
      Row(Zero, Frac(1, 2), Zero, Frac(1, 2), Frac(1, 4), Zero, Zero) }

Mult(river, upstream, demand, commitments) ==
    [river |-> river, upstream |-> upstream, demand |-> demand,
     commitments |-> commitments]

\* Lines 183-186 and 200-205: each multiplier is 1 + pct/100, pct in -30..30.
Multipliers ==
    { Mult(Rat(1), Rat(1), Rat(1), Rat(1)),
      Mult(Frac(3, 4), Frac(5, 4), Frac(5, 4), Frac(3, 4)),
      Mult(Frac(5, 4), Frac(3, 4), Frac(3, 4), Frac(5, 4)) }

StartLevels == {Rat(n) : n \in 0..MaxLevel}
MinLevels == {Rat(1), Rat(2)}
MaxLevels == {Rat(1), Rat(3)}
Caps == {Rat(-1), Zero, Rat(4), Rat(8)}

\* The call has been made and no line of it has run.
InitCall ==
    /\ df = << >>
    /\ storage = storage_start
    /\ rows = << >>
    /\ pc = "start"
    /\ k = [demand_met_pct |-> Zero, commitments_met_pct |-> Zero,
            total_spillage |-> Zero, storage_min_violations |-> 0]

Init ==
    /\ inputs \in UNION {[1..n -> Rows] : n \in 1..Horizon}
    /\ storage_start \in StartLevels
    /\ storage_min \in MinLevels
    /\ storage_max \in MaxLevels
    /\ max_release_per_hour \in Caps
    /\ scenario_multipliers \in Multipliers
    /\ InitCall

Next == ApplyMultipliers \/ HourStep \/ HourRaise \/ Return \/ Kpis

Spec == Init /\ [][Next]_vars

----------------------------------------------------------------------------
(* The concrete scenario of the specification's section 8: 3 hours,        *)
(* inflow_total = [200, 50, 200], commitments summing to 75 and demands to *)
(* 100 every hour, storage 500 in [100, 1000], cap 1000, multipliers 1.    *)
(* How each total splits over its columns is left open.                    *)

Units(n) == Rat(n * Unit)

ScenarioInflow == <<Units(200), Units(50), Units(200)>>
ScenarioCommitments == Units(75)
ScenarioDemands == Units(100)

\* commitment_S4_min and demand_D1 of the scenario; the other commitment and
\* demand are what is left of 75 and 100.
CommitSplits == {Zero, Units(35), Units(40), Units(75)}
DemandSplits == {Zero, Units(45), Units(55), Units(100)}

\* Each upstream release is this fraction of inflow_total, the river the rest.
UpstreamShares == {Frac(1, 4), Frac(1, 2)}

ScenarioRow(total, share, s4, d1) ==
    Row(Sub(total, Mul(Rat(2), Mul(total, share))), Mul(total, share),
        Mul(total, share), d1, Sub(ScenarioDemands, d1),
        s4, Sub(ScenarioCommitments, s4))

InitScenario ==
    /\ \E share \in UpstreamShares, s4 \in CommitSplits, d1 \in DemandSplits :
          inputs = [h \in 1..3 |-> ScenarioRow(ScenarioInflow[h], share, s4, d1)]
    /\ storage_start = Units(500)
    /\ storage_min = Units(100)
    /\ storage_max = Units(1000)
    /\ max_release_per_hour = Units(1000)
    /\ scenario_multipliers = Mult(Rat(1), Rat(1), Rat(1), Rat(1))
    /\ InitCall

NextScenario == ApplyMultipliers \/ HourStep \/ Return

SpecScenario == InitScenario /\ [][NextScenario]_vars

----------------------------------------------------------------------------
(* What the properties below read off a state.                             *)

Hours == 1..Len(rows)

\* The storage hour i starts from: storage_start, then the previous storage_end.
StorageBefore(i) == IF i = 1 THEN storage_start ELSE rows[i - 1].storage_end

\* Hour i's inputs after the multipliers.
In(i) == df[i]

\* inflow_total + max(0, storage - storage_min) at the start of hour i.
AvailableAt(i) ==
    Add(rows[i].inflow_total, Max(Zero, Sub(StorageBefore(i), storage_min)))
CommitmentsAt(i) == Add(In(i).commitment_S4_min, In(i).commitment_S5_min)
DemandsAt(i) == Add(In(i).demand_D1, In(i).demand_D2)
RemainderAt(i) == Sub(AvailableAt(i), CommitmentsAt(i))
UncappedAt(i) == Uncapped(In(i), StorageBefore(i), storage_min)
CapBindsAt(i) == CapBinds(UncappedAt(i), max_release_per_hour)
CommitmentsCovered(i) == Leq(CommitmentsAt(i), AvailableAt(i))
CommitmentsInFull(i) ==
    /\ rows[i].release_S4_river = In(i).commitment_S4_min
    /\ rows[i].release_S5_downstream = In(i).commitment_S5_min
DemandReleases(i) == Add(rows[i].release_D1, rows[i].release_D2)
CommitmentReleases(i) ==
    Add(rows[i].release_S4_river, rows[i].release_S5_downstream)
Rationed(i) ==
    LET remainder == RemainderAt(i)
    IN  Leq(Zero, remainder) /\ Less(remainder, DemandsAt(i))
CapNonNegative == Leq(Zero, max_release_per_hour)
BoundsOrdered == Leq(storage_min, storage_max)

----------------------------------------------------------------------------
(* C1 as stated: in every hour with available >= commitment_1 +            *)
(* commitment_2 and max_release_per_hour >= 0, both commitments are        *)
(* released in full.  Fails when the per-hour cap scales the releases.     *)
C1_CommitmentPriority ==
    CapNonNegative =>
        \A i \in Hours : CommitmentsCovered(i) => CommitmentsInFull(i)

(* C1 amended: in every hour with available >= commitment_1 + commitment_2 *)
(* in which the uncapped total of the four allocations does not exceed     *)
(* max_release_per_hour, both commitments are released in full, whatever   *)
(* the demands.                                                            *)
C1_CommitmentPriorityUncapped ==
    \A i \in Hours :
        (CommitmentsCovered(i) /\ ~CapBindsAt(i)) => CommitmentsInFull(i)

\* C1's case: commitments covered, cap not binding, demands cut, and a
\* nonzero commitment released in full.
C1_Witness ==
    \E i \in Hours :
        /\ Rationed(i)
        /\ ~CapBindsAt(i)
        /\ Less(Zero, In(i).commitment_S4_min)
        /\ Less(Zero, In(i).commitment_S5_min)
        /\ CommitmentsInFull(i)

(* C2: with storage_min <= storage_max, every emitted row has              *)
(* storage_min <= storage_end <= storage_max, whatever storage_start is,   *)
(* and so has the storage carried into every hour after the first.         *)
C2_StorageBounds ==
    BoundsOrdered =>
        /\ \A i \in Hours :
              /\ Leq(storage_min, rows[i].storage_end)
              /\ Leq(rows[i].storage_end, storage_max)
        /\ Len(rows) >= 1 =>
              (Leq(storage_min, storage) /\ Leq(storage, storage_max))

\* C2's case: a run that started outside [storage_min, storage_max] and has
\* carried its storage into a second hour.
C2_Witness ==
    /\ BoundsOrdered
    /\ Less(storage_start, storage_min) \/ Less(storage_max, storage_start)
    /\ Len(rows) = 2

(* C3: in every hour whose violation_storage_min flag is false,            *)
(* storage_end = storage at the start of the hour + inflow_total -         *)
(* release_total - spillage, the start of hour 1 being storage_start and   *)
(* of hour n+1 the storage_end of hour n (which is the carried storage).   *)
C3_Conservation ==
    /\ pc = "loop" => storage = StorageBefore(Len(rows) + 1)
    /\ \A i \in Hours :
          ~rows[i].violation_storage_min =>
              rows[i].storage_end =
                  Sub(Sub(Add(StorageBefore(i), rows[i].inflow_total),
                          rows[i].release_total), rows[i].spillage)

\* C3's case: a second hour that spills without a min violation, after a
\* first hour that released water.
C3_Witness ==
    /\ Len(rows) = 2
    /\ Less(Zero, rows[1].release_total)
    /\ ~rows[2].violation_storage_min
    /\ Less(Zero, rows[2].spillage)
    /\ Less(Zero, rows[2].release_total)

(* C4: with max_release_per_hour >= 0, every emitted row has               *)
(* release_total <= max_release_per_hour; and when the uncapped sum of the *)
(* four allocations exceeds the cap, release_total is the cap exactly and  *)
(* each of the four releases is its uncapped allocation times              *)
(* cap / uncapped_sum.                                                     *)
C4_CapRespected ==
    CapNonNegative =>
        \A i \in Hours :
            /\ Leq(rows[i].release_total, max_release_per_hour)
            /\ LET u == UncappedAt(i)
                   uncapped_sum == TotalOf(u)
                   f == Div(max_release_per_hour, uncapped_sum)
               IN  Less(max_release_per_hour, uncapped_sum) =>
                       /\ rows[i].release_total = max_release_per_hour
                       /\ rows[i].release_S4_river = Mul(u.s4_out, f)
                       /\ rows[i].release_S5_downstream = Mul(u.s5_out, f)
                       /\ rows[i].release_D1 = Mul(u.d1_out, f)
                       /\ rows[i].release_D2 = Mul(u.d2_out, f)

\* C4's case: a positive cap binds on an hour with all four allocations nonzero.
C4_Witness ==
    \E i \in Hours :
        /\ Less(Zero, max_release_per_hour)
        /\ CapBindsAt(i)
        /\ Less(Zero, rows[i].release_S4_river)
        /\ Less(Zero, rows[i].release_S5_downstream)
        /\ Less(Zero, rows[i].release_D1)
        /\ Less(Zero, rows[i].release_D2)

(* C5 as stated: in the concrete scenario, hour 2 rations the demands      *)
(* (release_demand_1 + release_demand_2 < 100) while the commitment        *)
(* releases sum to 75.  Fails: hour 2 has available = 50 + 425 = 475.      *)
C5_ScenarioHour2Rations ==
    Len(rows) >= 2 =>
        /\ Less(DemandReleases(2), ScenarioDemands)
        /\ CommitmentReleases(2) = ScenarioCommitments

(* C5 amended: in the concrete scenario hour 1 ends with storage 525, so   *)
(* hour 2 has available = 50 + 425 = 475 >= 175 and rations nothing: both  *)
(* demands are released in full (their releases sum to 100) and both       *)
(* commitments are released in full (their releases sum to 75).            *)
C5_ScenarioHour2InFull ==
    /\ Len(rows) >= 1 => rows[1].storage_end = Units(525)
    /\ Len(rows) >= 2 =>
          /\ AvailableAt(2) = Units(475)
          /\ rows[2].release_D1 = In(2).demand_D1
          /\ rows[2].release_D2 = In(2).demand_D2
          /\ DemandReleases(2) = ScenarioDemands
          /\ CommitmentsInFull(2)
          /\ CommitmentReleases(2) = ScenarioCommitments

\* C5's case: hour 2, the hour of inflow 50, has been emitted, with two
\* nonzero demands and two nonzero commitments.
C5_Witness ==
    /\ Len(rows) >= 2
    /\ rows[2].inflow_total = Units(50)
    /\ Less(Zero, In(2).demand_D1) /\ Less(Zero, In(2).demand_D2)
    /\ Less(Zero, In(2).commitment_S4_min)
    /\ Less(Zero, In(2).commitment_S5_min)

(* C6 as stated: the engine never raises; it runs through every hour and   *)
(* returns one row per input hour.  Fails at line 114 when the cap is      *)
(* negative and the hour's total release is zero.                          *)
C6_NeverRaises ==
    /\ pc # "raised"
    /\ pc \in {"returned", "kpis"} => Len(rows) = Len(inputs)

(* C7 as stated: in every hour where commitments are covered, the          *)
(* remainder is less than demand_1 + demand_2 and both demands are         *)
(* nonzero, release_demand_1 * demand_2 = release_demand_2 * demand_1,     *)
(* cap or no cap; and when the cap does not bind the two demand releases   *)
(* sum to the remainder.  Fails when demand_1 + demand_2 < 1e-6.           *)
C7_ProportionalFairness ==
    \A i \in Hours :
        (/\ Rationed(i)
         /\ In(i).demand_D1 # Zero
         /\ In(i).demand_D2 # Zero) =>
            /\ Mul(rows[i].release_D1, In(i).demand_D2) =
                   Mul(rows[i].release_D2, In(i).demand_D1)
            /\ ~CapBindsAt(i) => DemandReleases(i) = RemainderAt(i)

(* C7 amended: the same, for hours where demand_1 + demand_2 >= 1e-6       *)
(* (below that guard both demand releases are zero).                       *)
C7_ProportionalFairnessGuarded ==
    \A i \in Hours :
        (/\ In(i).demand_D1 # Zero
         /\ In(i).demand_D2 # Zero
         /\ Rationed(i)) =>
            /\ Mul(rows[i].release_D1, In(i).demand_D2) =
                   Mul(rows[i].release_D2, In(i).demand_D1)
            /\ Less(DemandsAt(i), EPS) =>
                  (rows[i].release_D1 = Zero /\ rows[i].release_D2 = Zero)
            /\ (Leq(EPS, DemandsAt(i)) /\ ~CapBindsAt(i)) =>
                  DemandReleases(i) = RemainderAt(i)

\* C7's case: two unequal nonzero demands rationed from a positive
\* remainder, in one hour with the cap binding and in another without.
C7_Rationing(i, capped) ==
    /\ Rationed(i)
    /\ Leq(EPS, DemandsAt(i))
    /\ Less(Zero, RemainderAt(i))
    /\ Less(Zero, rows[i].release_D1)
    /\ Less(Zero, rows[i].release_D2)
    /\ rows[i].release_D1 # rows[i].release_D2
    /\ CapBindsAt(i) = capped

C7_Witness ==
    \E i, j \in Hours : C7_Rationing(i, TRUE) /\ C7_Rationing(j, FALSE)

(* C8: in every hour where available < commitment_1 + commitment_2, both   *)
(* demand releases are zero, release_commitment_1 * commitment_2 =         *)
(* release_commitment_2 * commitment_1, release_total <= available, and,   *)
(* when the cap does not bind, available - release_total < 1e-6 (exactly:  *)
(* release_total = available * commitments / (commitments + 1e-6)).        *)
C8_ExtremeShortage ==
    \A i \in Hours :
        LET available == AvailableAt(i)
            commitments == CommitmentsAt(i)
        IN  Less(available, commitments) =>
                /\ rows[i].release_D1 = Zero
                /\ rows[i].release_D2 = Zero
                /\ Mul(rows[i].release_S4_river, In(i).commitment_S5_min) =
                       Mul(rows[i].release_S5_downstream,
                           In(i).commitment_S4_min)
                /\ Leq(rows[i].release_total, available)
                /\ ~CapBindsAt(i) =>
                      /\ Less(Sub(available, rows[i].release_total), EPS)
                      /\ Mul(rows[i].release_total, Add(commitments, EPS)) =
                             Mul(available, commitments)

\* C8's case: a shortage hour with water to share, two unequal nonzero
\* commitments, nonzero demands, and the cap not binding.
C8_Witness ==
    \E i \in Hours :
        /\ Less(AvailableAt(i), CommitmentsAt(i))
        /\ Less(Zero, AvailableAt(i))
        /\ Less(Zero, DemandsAt(i))
        /\ Less(Zero, rows[i].release_S4_river)
        /\ Less(rows[i].release_S4_river, rows[i].release_S5_downstream)
        /\ ~CapBindsAt(i)

C10_KpisAtMostHundred ==
    pc = "kpis" =>
        /\ Leq(Add(Sum(Column(rows, "release_D1")),
                   Sum(Column(rows, "release_D2"))),
               Add(Sum(Column(inputs, "demand_D1")),
                   Sum(Column(inputs, "demand_D2"))))
        /\ Leq(Add(Sum(Column(rows, "release_S4_river")),
                   Sum(Column(rows, "release_S5_downstream"))),
               Add(Sum(Column(inputs, "commitment_S4_min")),
                   Sum(Column(inputs, "commitment_S5_min"))))
        /\ Leq(k.demand_met_pct, Rat(100))
        /\ Leq(k.commitments_met_pct, Rat(100))

====
